---- MODULE Spec2Model ----
(***************************************************************************)
(* Model of the HDFS -> local model synchronisation daemon (src/sync.py). *)
(*                                                                         *)
(* A path is a sequence of segments and a segment is a sequence of         *)
(* characters, so that str(path) and str.startswith are computed on        *)
(* characters, as the containment checks of the code compute them.         *)
(* The local file system is a set of directories plus a map from file      *)
(* paths to files; an open write handle follows the file it was opened on  *)
(* through renames and becomes an orphan when that file is unlinked or     *)
(* replaced.  The remote tree is read through HDFS and may be changed by   *)
(* other writers while the daemon runs.                                    *)
(***************************************************************************)
EXTENDS Integers, Sequences, FiniteSets, TLC

\* ------------------------------------------------------------------ bounds
MaxCycles  == 2   \* cycles one process runs in continuous mode
NChunks    == 2   \* write() calls shutil.copyfileobj needs for one file
MaxFails   == 1   \* I/O failures injected during one behaviour
MaxMods    == 1   \* changes made to the remote tree during one behaviour

\* ------------------------------------------------------------------ paths
Dot        == <<".">>
DotDot     == <<".", ".">>
TmpSuffix  == <<".", "t", "m", "p">>
SegR       == <<"r">>
SegRx      == <<"r", "x">>
SegE       == <<"e">>
SegA       == <<"A">>
SegB       == <<"B">>
SegC       == <<"C">>
SegF       == <<"f">>
SegG       == <<"g">>
SegD       == <<"d">>
SegH       == <<"h">>
SegM       == <<"m">>

\* Path(config.local_model_root).resolve(): the directory /r
local_model_root == <<SegR>>

\* str(path) of an absolute path
RECURSIVE StrSegs(_)
StrSegs(p) == IF p = <<>> THEN <<>> ELSE <<"/">> \o Head(p) \o StrSegs(Tail(p))
Str(p) == IF p = <<>> THEN <<"/">> ELSE StrSegs(p)

\* str.startswith
StartsWith(s, pre) == Len(s) >= Len(pre) /\ SubSeq(s, 1, Len(pre)) = pre

\* A path string as written in the manifest or computed by relpath:
\* absolute or not, and its segments ("." and ".." included).
Raw(abs, segs) == [abs |-> abs, segs |-> segs]

\* pathlib: base / raw   (an absolute right operand replaces the base; "."
\* segments are dropped when the path is parsed)
DropDots(segs) == SelectSeq(segs, LAMBDA s : s # Dot)
Join(base, raw) == IF raw.abs THEN DropDots(raw.segs) ELSE base \o DropDots(raw.segs)

\* Path.resolve() on a tree without symbolic links: ".." pops a segment
RECURSIVE ResolveFrom(_, _)
ResolveFrom(acc, rest) ==
    IF rest = <<>> THEN acc
    ELSE IF Head(rest) = DotDot
         THEN ResolveFrom(IF acc = <<>> THEN acc ELSE SubSeq(acc, 1, Len(acc) - 1), Tail(rest))
         ELSE ResolveFrom(Append(acc, Head(rest)), Tail(rest))
Resolve(p) == ResolveFrom(<<>>, p)

Parent(p) == SubSeq(p, 1, Len(p) - 1)
Name(p)   == p[Len(p)]
IsPrefix(a, b) == Len(a) <= Len(b) /\ SubSeq(b, 1, Len(a)) = a
\* a path is inside the local root when the root is one of its ancestors (or itself)
InsideRoot(p) == IsPrefix(local_model_root, p)

\* os.path.relpath(path, start) for absolute, normalised operands
RECURSIVE CommonLen(_, _)
CommonLen(a, b) ==
    IF a = <<>> \/ b = <<>> \/ Head(a) # Head(b) THEN 0
    ELSE 1 + CommonLen(Tail(a), Tail(b))
RelPath(path, start) ==
    LET c == CommonLen(path, start)
    IN  Raw(FALSE, [i \in 1 .. (Len(start) - c) |-> DotDot]
                   \o SubSeq(path, c + 1, Len(path)))

\* local_file.with_suffix(local_file.suffix + ".tmp")
tmp_file(local_file) ==
    Append(Parent(local_file), Name(local_file) \o TmpSuffix)

\* the containment test of run_once and _sync_directory
containment_ok(resolved) == StartsWith(Str(resolved), Str(local_model_root))

\* ------------------------------------------------------------------ remote side
HDir     == <<SegH, SegM>>            \* a model's base_path that exists on HDFS
HMissing == <<SegH, SegE>>            \* a base_path that does not exist on HDFS
RF       == HDir \o <<SegF>>                      \* /h/m/f
RFtmp    == HDir \o <<SegF \o TmpSuffix>>         \* /h/m/f.tmp
RDG      == HDir \o <<SegD, SegG>>                \* /h/m/d/g
RStrayRx == <<SegRx>>                 \* listed entries that are not under the
RStrayE  == <<SegE>>                  \* selector's base directory
StrayPaths == {RStrayRx, RStrayE}
None     == <<>>                      \* file_info.mtime is None; a timestamp t is <<t>>
T(t)     == <<t>>

\* config.ModelEntry; a mapping is the sequence of its items, the empty
\* mapping (and None) is <<>>
ModelEntry(name, base_path, model_platform, version_labels, version_policy) ==
    [name |-> name, base_path |-> base_path, model_platform |-> model_platform,
     version_labels |-> version_labels, version_policy |-> version_policy]
Labels   == << <<"stable", 1>>, <<"canary", 2>> >>
Policy   == << <<"latest", "{ num_versions: 1 }">> >>
EntA     == ModelEntry(Raw(FALSE, <<SegA>>), HDir, "tensorflow", Labels, <<>>)
EntB     == ModelEntry(Raw(FALSE, <<SegB>>), HMissing, "tensorflow", <<>>, Policy)
EntC     == ModelEntry(Raw(FALSE, <<SegC>>), HDir, "tensorflow", <<>>, <<>>)
EntDotA  == ModelEntry(Raw(FALSE, <<Dot, SegA>>), HDir, "tensorflow", Labels, Policy)
EntEsc   == ModelEntry(Raw(FALSE, <<DotDot, SegRx>>), HDir, "tensorflow", <<>>, <<>>)
EntUp    == ModelEntry(Raw(FALSE, <<DotDot, SegE>>), HDir, "tensorflow", <<>>, <<>>)
EntAbs   == ModelEntry(Raw(TRUE, <<SegE>>), HDir, "tensorflow", <<>>, <<>>)
Manifests == { <<>>, <<EntA>>, <<EntA, EntB>>, <<EntB, EntA>>, <<EntDotA>>,
               <<EntEsc, EntA>>, <<EntUp, EntA>>, <<EntAbs, EntA>> }

\* ------------------------------------------------------------------ state
Procs == {1, 2}                       \* the daemon processes (their pids)

VARIABLES
    active,          \* the daemon processes that were started
    enable_sync_loop,\* config.enable_sync_loop
    sync_interval_minutes, \* config.sync_interval_minutes
    manifest,        \* the remote manifest file: [kind, models]
    rfiles,          \* remote files: path -> [mtime, ver]
    modsLeft,        \* changes other writers may still make to the remote tree
    now,             \* the clock
    ldirs,           \* local directories (absolute paths)
    lfiles,          \* local regular files: path -> [data, mtime]
    models_config,   \* <local_model_root>/models.config: [state, lines]
    locks,           \* lock files currently held
    pc,              \* where each process is
    hdfs_models,     \* run_once: the parsed manifest
    mi,              \* run_once: index of the model of the loop of step 2
    local_models,    \* run_once: the LocalModelEntry list
    listing,         \* _sync_directory: file infos still to visit
    cur,             \* _sync_directory: the file being copied
    hloc,            \* _copy_file_atomically: where the file behind dst is linked
    off,             \* _copy_file_atomically: chunks written to dst
    cycles,          \* run_continuously: cycles started
    failsLeft,       \* I/O failures the environment may still inject
    hist,            \* per process: what happened in the cycle (for the properties)
    runlog           \* per process: the last two completed _sync_directory runs

vars == << active, enable_sync_loop, sync_interval_minutes, manifest, rfiles,
           modsLeft, now, ldirs, lfiles,
           models_config, locks, pc, hdfs_models, mi, local_models, listing,
           cur, hloc, off, cycles, failsLeft, hist, runlog >>

NoCur   == [path |-> <<>>, local_file |-> <<>>, ver |-> 0]
Orphan  == << <<"(orphan)">> >>       \* hloc of a file that is linked nowhere
Closed  == << <<"(closed)">> >>       \* hloc when dst is not open

\* a file's content: the chunks written, each naming the remote file and the
\* version it was read from; Hole is a gap left by a write past the end
Hole == <<>>
Chunk(path, ver) == <<path, ver>>
Whole(path, ver) == [i \in 1 .. NChunks |-> Chunk(path, ver)]
\* the data is one complete version of the remote file at `path`
IsComplete(data, path) ==
    /\ Len(data) = NChunks
    /\ \A i \in 1 .. NChunks : data[i] # Hole /\ data[i][1] = path /\ data[i][2] = data[1][2]

LocalFile(data, mtime) == [data |-> data, mtime |-> mtime]
RemoteFile(mtime, ver) == [mtime |-> mtime, ver |-> ver]

\* all ancestors of a path and the path itself
Ancestors(p) == { SubSeq(p, 1, n) : n \in 0 .. Len(p) }

NoDecision == [made |-> FALSE, mtime |-> None, existed |-> FALSE, local_mtime |-> 0,
               result |-> FALSE]
NoHist == [raised |-> FALSE, raisedAt |-> "", prevRaised |-> FALSE, transfers |-> 0,
           copyfailed |-> 0, copied |-> {}, deleted |-> {}, wrote |-> FALSE,
           parsed |-> "none", synced |-> {}, decision |-> NoDecision,
           attempts |-> <<>>, startedAt |-> 0, prevEnd |-> 0, endedAt |-> 0,
           remote |-> <<>>,
           before |-> [dirs |-> {}, files |-> <<>>, config |-> <<>>],
           run |-> [transfers |-> 0, failed |-> 0, before |-> <<>>, dirs |-> {}]]

\* ------------------------------------------------------------------ helpers
Set(p, f, v) == [f EXCEPT ![p] = v]

\* mkdir(parents=True, exist_ok=True) raises when a regular file is in the way
mkdir_blocked(d) == \E a \in Ancestors(d) : a \in DOMAIN lfiles
mkdir_creates(d) == ~(Ancestors(d) \subseteq ldirs)

\* Path.exists() and stat().st_mtime (a directory's mtime is not tracked: it
\* is read as the current time)
exists(path) == path \in DOMAIN lfiles \/ path \in ldirs
st_mtime(path) == IF path \in DOMAIN lfiles THEN lfiles[path].mtime ELSE now

\* the update decision with "newer or equal" in place of "strictly newer"
should_update_ge(file_info, local_file) ==
    IF file_info.mtime = None THEN TRUE
    ELSE IF exists(local_file) THEN file_info.mtime[1] >= st_mtime(local_file)
    ELSE TRUE

\* HdfsModelSyncer._should_update_file
_should_update_file(file_info, local_file) ==
    IF file_info.mtime = None THEN TRUE
    ELSE IF exists(local_file) THEN file_info.mtime[1] > st_mtime(local_file)
    ELSE TRUE

\* a parser that hands on what it read when parsing fails
parse_keeps_models(content) == content.models

\* _parse_model_config: the model list, empty when parsing fails
_parse_model_config(content) ==
    IF content.kind = "ok" THEN content.models ELSE <<>>

\* the lock file of run_once
lock_path(p) == Append(local_model_root, <<".sync.lock.", p>>)

\* get_file_info(hdfs_dir).type == Directory
IsRemoteDir(d) == d \in Ancestors(HDir) \cup {HDir \o <<SegD>>}

\* get_file_info(FileSelector(hdfs_dir, recursive=True)), entries of file type
Listed(hdfs_dir) ==
    { [path |-> f, mtime |-> rfiles[f].mtime] :
        f \in { g \in DOMAIN rfiles : IsPrefix(hdfs_dir, g) \/ g \in StrayPaths } }

\* the model of the loop of step 2 and its local directory
Entry(p)     == hdfs_models[p][mi[p]]
LocalPath(p) == Resolve(Join(local_model_root, Entry(p).name))

\* the dictionary run_once appends to local_models
LocalModelEntryOf(m, local_path) ==
    [name |-> m.name, base_path |-> local_path, model_platform |-> m.model_platform,
     version_labels |-> m.version_labels, version_policy |-> m.version_policy]
LocalModelEntry(p) == LocalModelEntryOf(Entry(p), LocalPath(p))

\* a cycle body without the except clause: the exception leaves run_once
handler_propagates == "crashed"

\* the pc an exception of the cycle body continues at (except Exception: ...)
cycle_handler == "finally"

\* write one chunk through a handle at offset k (0-based)
WriteAt(data, k, c) ==
    [i \in 1 .. (IF Len(data) > k + 1 THEN Len(data) ELSE k + 1) |->
        IF i = k + 1 THEN c ELSE IF i <= Len(data) THEN data[i] ELSE Hole]

\* remove a path from the file map; restrict the file map
Without(files, gone) == [q \in DOMAIN files \ gone |-> files[q]]

\* ------------------------------------------------------------------ actions
\* what one action leaves alone
Remote  == << manifest, rfiles, modsLeft >>
Config  == << active, enable_sync_loop, sync_interval_minutes >>
Walk    == << hdfs_models, mi, local_models, listing >>
Copy    == << cur, hloc, off >>

H(p, field, v) == [hist EXCEPT ![p][field] = v]

\* an exception leaves the statement at `where` and reaches run_once's handler
Raise(p, where) ==
    /\ pc' = Set(p, pc, "except")
    /\ hist' = Set(p, hist, [hist[p] EXCEPT !.raised = TRUE, !.raisedAt = where])

\* an injected I/O failure uses up the budget
Inject == failsLeft > 0 /\ failsLeft' = failsLeft - 1

\* run_continuously: the first run_once
Start(p) ==
    /\ pc[p] = "start"
    /\ pc' = Set(p, pc, "acquire")
    /\ cycles' = Set(p, cycles, 1)
    /\ UNCHANGED << Config, runlog, Remote, now, ldirs, lfiles, models_config, locks,
                    Walk, Copy, failsLeft, hist >>

\* run_once: with FileLock(lock_path)
Acquire(p) ==
    /\ pc[p] = "acquire"
    /\ lock_path(p) \notin locks
    /\ locks' = locks \cup {lock_path(p)}
    /\ pc' = Set(p, pc, "read_manifest")
    /\ hist' = Set(p, hist, [NoHist EXCEPT !.prevRaised = hist[p].raised,
                                            !.startedAt = now,
                                            !.prevEnd = hist[p].endedAt,
                                            !.remote = rfiles,
                                            !.before = [dirs |-> ldirs, files |-> lfiles,
                                                        config |-> models_config]])
    /\ UNCHANGED << Config, runlog, Remote, now, ldirs, lfiles, models_config,
                    Walk, Copy, cycles, failsLeft >>

\* a step 1 that treats a failed read like a failed parse: the cycle goes on
\* with an empty model list
ReadManifestFallsBack(p) ==
    /\ pc[p] = "read_manifest"
    /\ \/ /\ \/ manifest.kind = "badutf8" /\ UNCHANGED failsLeft
             \/ Inject
          /\ hdfs_models' = Set(p, hdfs_models, <<>>)
          /\ mi' = Set(p, mi, 1)
          /\ local_models' = Set(p, local_models, <<>>)
          /\ pc' = Set(p, pc, "model_loop")
          /\ UNCHANGED hist
       \/ /\ manifest.kind # "badutf8"
          /\ hdfs_models' = Set(p, hdfs_models, _parse_model_config(manifest))
          /\ mi' = Set(p, mi, 1)
          /\ local_models' = Set(p, local_models, <<>>)
          /\ pc' = Set(p, pc, "model_loop")
          /\ hist' = H(p, "parsed", manifest.kind)
          /\ UNCHANGED failsLeft
    /\ UNCHANGED << Config, runlog, Remote, now, ldirs, lfiles, models_config, locks,
                    listing, Copy, cycles >>

\* step 1: open, read, decode and parse the manifest
ReadManifest(p) ==
    /\ pc[p] = "read_manifest"
    /\ \/ /\ \/ manifest.kind = "badutf8" /\ UNCHANGED failsLeft
             \/ Inject
          /\ Raise(p, "manifest")
          /\ UNCHANGED << hdfs_models, mi, local_models >>
       \/ /\ manifest.kind # "badutf8"
          /\ hdfs_models' = Set(p, hdfs_models, _parse_model_config(manifest))
          /\ mi' = Set(p, mi, 1)
          /\ local_models' = Set(p, local_models, <<>>)
          /\ pc' = Set(p, pc, "model_loop")
          /\ hist' = H(p, "parsed", manifest.kind)
          /\ UNCHANGED failsLeft
    /\ UNCHANGED << Config, runlog, Remote, now, ldirs, lfiles, models_config, locks,
                    listing, Copy, cycles >>

\* step 2, one model: the containment check and _sync_directory's mkdir
BeginModel(p) ==
    /\ pc[p] = "model_loop"
    /\ IF mi[p] > Len(hdfs_models[p])
       THEN /\ pc' = Set(p, pc, "delete")
            /\ UNCHANGED << mi, ldirs, failsLeft, hist >>
       ELSE IF ~containment_ok(LocalPath(p))
       THEN /\ mi' = Set(p, mi, mi[p] + 1)
            /\ UNCHANGED << pc, ldirs, failsLeft, hist >>
       ELSE \/ /\ ~mkdir_blocked(LocalPath(p))
               /\ ldirs' = ldirs \cup Ancestors(LocalPath(p))
               /\ pc' = Set(p, pc, "sync_list")
               /\ hist' = Set(p, hist, [hist[p] EXCEPT
                             !.attempts = Append(@, mi[p]),
                             !.run = [transfers |-> 0, failed |-> 0, before |-> lfiles,
                                      dirs |-> ldirs]])
               /\ UNCHANGED << mi, failsLeft >>
            \/ /\ \/ mkdir_blocked(LocalPath(p)) /\ UNCHANGED failsLeft
                  \/ mkdir_creates(LocalPath(p)) /\ Inject
               /\ Raise(p, "sync_mkdir")
               /\ UNCHANGED << mi, ldirs >>
    /\ UNCHANGED << Config, runlog, Remote, now, lfiles, models_config, locks,
                    hdfs_models, local_models, listing, Copy, cycles >>

\* a loop of step 2 that runs the deletion step after each model
EndModelThenDelete(p) ==
    /\ local_models' = Set(p, local_models, Append(local_models[p], LocalModelEntry(p)))
    /\ mi' = Set(p, mi, mi[p] + 1)
    /\ pc' = Set(p, pc, "delete")
    /\ hist' = H(p, "synced", hist[p].synced \cup {mi[p]})
    /\ UNCHANGED runlog

\* the end of _sync_directory: run_once records the LocalModelEntry
EndModel(p) ==
    /\ local_models' = Set(p, local_models, Append(local_models[p], LocalModelEntry(p)))
    /\ mi' = Set(p, mi, mi[p] + 1)
    /\ pc' = Set(p, pc, "model_loop")
    /\ hist' = H(p, "synced", hist[p].synced \cup {mi[p]})
    /\ runlog' = Set(p, runlog,
                     LET r == [hdfs_dir |-> Entry(p).base_path, local_dir |-> LocalPath(p),
                               transfers |-> hist[p].run.transfers,
                               failed |-> hist[p].run.failed,
                               before |-> hist[p].run.before, after |-> lfiles,
                               dirsBefore |-> hist[p].run.dirs, dirsAfter |-> ldirs]
                     IN  IF runlog[p] = <<>> THEN <<r>>
                         ELSE <<runlog[p][Len(runlog[p])], r>>)

\* _sync_directory: the type of hdfs_dir and the recursive listing
SyncList(p) ==
    /\ pc[p] = "sync_list"
    /\ \/ /\ Inject
          /\ Raise(p, "list")
          /\ UNCHANGED << mi, local_models, listing, runlog >>
       \/ /\ ~IsRemoteDir(Entry(p).base_path)
          /\ EndModel(p)
          /\ UNCHANGED << listing, failsLeft >>
       \/ /\ IsRemoteDir(Entry(p).base_path)
          /\ listing' = Set(p, listing, Listed(Entry(p).base_path))
          /\ pc' = Set(p, pc, "file_loop")
          /\ UNCHANGED << mi, local_models, failsLeft, hist, runlog >>
    /\ UNCHANGED << Config, Remote, now, ldirs, lfiles, models_config, locks,
                    hdfs_models, Copy, cycles >>

\* the local file of a listed entry, resolved
LocalFileOf(p, fi) ==
    Resolve(Join(LocalPath(p), RelPath(fi.path, Entry(p).base_path)))

\* _sync_directory: one listed file: containment check and update decision
NextFile(p) ==
    /\ pc[p] = "file_loop"
    /\ IF listing[p] = {}
       THEN /\ EndModel(p)
            /\ UNCHANGED << listing, cur >>
       ELSE \E fi \in listing[p] :
            LET local_file == LocalFileOf(p, fi)
                update == _should_update_file(fi, local_file)
                dec == [made |-> TRUE, mtime |-> fi.mtime, existed |-> exists(local_file),
                        local_mtime |-> st_mtime(local_file), result |-> update]
            IN  /\ listing' = Set(p, listing, listing[p] \ {fi})
                /\ IF ~containment_ok(local_file)
                   THEN UNCHANGED << cur, pc, hist >>
                   ELSE IF update
                   THEN /\ cur' = Set(p, cur, [path |-> fi.path,
                                               local_file |-> local_file, ver |-> 0])
                        /\ pc' = Set(p, pc, "copy_mkdir")
                        /\ hist' = Set(p, hist, [hist[p] EXCEPT
                                      !.transfers = @ + 1,
                                      !.run.transfers = @ + 1,
                                      !.copied = @ \cup {[path |-> fi.path,
                                                          local_file |-> local_file]},
                                      !.decision = dec])
                   ELSE /\ hist' = H(p, "decision", dec)
                        /\ UNCHANGED << cur, pc >>
                /\ UNCHANGED << mi, local_models, runlog >>
    /\ UNCHANGED << Config, Remote, now, ldirs, lfiles, models_config, locks,
                    hdfs_models, hloc, off, cycles, failsLeft >>

TmpOf(p) == tmp_file(cur[p].local_file)

\* _copy_file_atomically: local_file.parent.mkdir(parents=True, exist_ok=True),
\* before the try: a failure propagates to run_once
CopyMkdir(p) ==
    /\ pc[p] = "copy_mkdir"
    /\ LET parent == Parent(cur[p].local_file)
       IN  \/ /\ ~mkdir_blocked(parent)
              /\ ldirs' = ldirs \cup Ancestors(parent)
              /\ pc' = Set(p, pc, "copy_open")
              /\ UNCHANGED << failsLeft, hist >>
           \/ /\ \/ mkdir_blocked(parent) /\ UNCHANGED failsLeft
                 \/ mkdir_creates(parent) /\ Inject
              /\ Raise(p, "copy_mkdir")
              /\ UNCHANGED ldirs
    /\ UNCHANGED << Config, runlog, Remote, now, lfiles, models_config, locks,
                    Walk, Copy, cycles >>

\* open_input_file(hdfs_path) and open(tmp_file, "wb"): the staging file is
\* created, or truncated when the path already names a file
CopyOpen(p) ==
    /\ pc[p] = "copy_open"
    /\ \/ /\ \/ /\ \/ cur[p].path \notin DOMAIN rfiles
                   \/ TmpOf(p) \in ldirs
                   \/ Parent(TmpOf(p)) \notin ldirs
                /\ UNCHANGED failsLeft
             \/ Inject
          /\ pc' = Set(p, pc, "copy_except")
          /\ UNCHANGED << lfiles, Copy >>
       \/ /\ cur[p].path \in DOMAIN rfiles
          /\ TmpOf(p) \notin ldirs
          /\ Parent(TmpOf(p)) \in ldirs
          /\ lfiles' = [q \in DOMAIN lfiles \cup {TmpOf(p)} |->
                          IF q = TmpOf(p) THEN LocalFile(<<>>, now) ELSE lfiles[q]]
          /\ hloc' = Set(p, hloc, TmpOf(p))
          /\ off' = Set(p, off, 0)
          /\ cur' = Set(p, cur, [cur[p] EXCEPT !.ver = rfiles[cur[p].path].ver])
          /\ pc' = Set(p, pc, "copy_write")
          /\ UNCHANGED failsLeft
    /\ UNCHANGED << Config, runlog, Remote, now, ldirs, models_config, locks,
                    Walk, cycles, hist >>

\* shutil.copyfileobj: one read and one write; after the last one both files
\* are closed
CopyWrite(p) ==
    /\ pc[p] = "copy_write"
    /\ \/ /\ Inject
          /\ hloc' = Set(p, hloc, Closed)
          /\ pc' = Set(p, pc, "copy_except")
          /\ UNCHANGED << lfiles, off >>
       \/ /\ lfiles' = IF hloc[p] \in DOMAIN lfiles
                       THEN [lfiles EXCEPT ![hloc[p]] =
                               LocalFile(WriteAt(@.data, off[p],
                                                 Chunk(cur[p].path, cur[p].ver)), now)]
                       ELSE lfiles
          /\ off' = Set(p, off, off[p] + 1)
          /\ IF off[p] + 1 = NChunks
             THEN /\ hloc' = Set(p, hloc, Closed)
                  /\ pc' = Set(p, pc, "copy_replace")
             ELSE UNCHANGED << hloc, pc >>
          /\ UNCHANGED failsLeft
    /\ UNCHANGED << Config, runlog, Remote, now, ldirs, models_config, locks,
                    Walk, cur, cycles, hist >>

\* tmp_file.replace(local_file): an atomic rename over the final path
CopyReplace(p) ==
    /\ pc[p] = "copy_replace"
    /\ LET tmp == TmpOf(p)
           dst == cur[p].local_file
       IN  \/ /\ \/ (tmp \notin DOMAIN lfiles \/ dst \in ldirs) /\ UNCHANGED failsLeft
                 \/ Inject
              /\ pc' = Set(p, pc, "copy_except")
              /\ UNCHANGED << lfiles, hloc >>
           \/ /\ tmp \in DOMAIN lfiles
              /\ dst \notin ldirs
              /\ lfiles' = [q \in (DOMAIN lfiles \ {tmp}) \cup {dst} |->
                              IF q = dst THEN lfiles[tmp] ELSE lfiles[q]]
              /\ hloc' = [q \in Procs |->
                            IF hloc[q] = tmp THEN dst
                            ELSE IF hloc[q] = dst THEN Orphan ELSE hloc[q]]
              /\ pc' = Set(p, pc, "file_loop")
              /\ UNCHANGED failsLeft
    /\ UNCHANGED << Config, runlog, Remote, now, ldirs, models_config, locks,
                    Walk, cur, off, cycles, hist >>

\* except Exception: log; if tmp_file.exists(): tmp_file.unlink(missing_ok=True)
\* (unlink of a directory raises, and that propagates to run_once)
CopyExcept(p) ==
    /\ pc[p] = "copy_except"
    /\ LET tmp == TmpOf(p)
       IN  IF tmp \in ldirs
           THEN /\ Raise(p, "copy_unlink")
                /\ UNCHANGED << lfiles, hloc >>
           ELSE /\ lfiles' = Without(lfiles, {tmp})
                /\ hloc' = [q \in Procs |-> IF hloc[q] = tmp THEN Orphan ELSE hloc[q]]
                /\ pc' = Set(p, pc, "file_loop")
                /\ hist' = Set(p, hist, [hist[p] EXCEPT !.copyfailed = @ + 1,
                                                        !.run.failed = @ + 1])
    /\ UNCHANGED << Config, runlog, Remote, now, ldirs, models_config, locks,
                    Walk, cur, off, cycles, failsLeft >>

\* step 3: the names the manifest declares, and the directories to remove
expected(p) == { hdfs_models[p][i].name : i \in 1 .. Len(hdfs_models[p]) }
TopLevelDirs == { d \in ldirs : Len(d) = Len(local_model_root) + 1 /\ InsideRoot(d) }
Victims(p) == { d \in TopLevelDirs : Raw(FALSE, <<Name(d)>>) \notin expected(p) }

\* step 3, one item of iterdir(): shutil.rmtree(item)
DeleteStep(p) ==
    /\ pc[p] = "delete"
    /\ IF Victims(p) = {}
       THEN /\ pc' = Set(p, pc, "write_registry")
            /\ UNCHANGED << ldirs, lfiles, hloc, failsLeft, hist >>
       ELSE \/ \E d \in Victims(p) :
                 /\ ldirs' = { x \in ldirs : ~IsPrefix(d, x) }
                 /\ lfiles' = Without(lfiles, { x \in DOMAIN lfiles : IsPrefix(d, x) })
                 /\ hloc' = [q \in Procs |->
                               IF IsPrefix(d, hloc[q]) THEN Orphan ELSE hloc[q]]
                 /\ hist' = H(p, "deleted", hist[p].deleted \cup {d})
                 /\ UNCHANGED << pc, failsLeft >>
            \/ /\ Inject
               /\ Raise(p, "delete")
               /\ UNCHANGED << ldirs, lfiles, hloc >>
    /\ UNCHANGED << Config, runlog, Remote, now, models_config, locks,
                    Walk, cur, off, cycles >>

\* one element of config_lines: what it is and the value it carries
Line(k, v) == [k |-> k, v |-> v]

\* _format_version_labels and _format_version_policy: one element holding
\* the whole block with the items of the mapping
_format_version_labels(labels) == Line("version_labels {", labels)
_format_version_policy(policy) == Line("version_policy {", policy)

\* a block that carries the labels and the policy whether empty or not
BlockLinesAlways(m) ==
    << Line("config {", <<>>), Line("name", m.name), Line("base_path", m.base_path),
       Line("model_platform", m.model_platform),
       _format_version_labels(m.version_labels),
       _format_version_policy(m.version_policy), Line("}", <<>>) >>

\* step 4: the elements appended to config_lines for one entry of local_models
BlockLines(m) ==
    << Line("config {", <<>>), Line("name", m.name), Line("base_path", m.base_path),
       Line("model_platform", m.model_platform) >>
    \o (IF m.version_labels # <<>> THEN << _format_version_labels(m.version_labels) >>
                                   ELSE <<>>)
    \o (IF m.version_policy # <<>> THEN << _format_version_policy(m.version_policy) >>
                                   ELSE <<>>)
    \o << Line("}", <<>>) >>

RECURSIVE ConfigLines(_)
ConfigLines(entries) ==
    IF entries = <<>> THEN <<>>
    ELSE BlockLines(Head(entries)) \o ConfigLines(Tail(entries))

\* step 4: the document built from local_models
Render(entries) ==
    [state |-> "written",
     lines |-> << Line("model_config_list {", <<>>) >> \o ConfigLines(entries)
               \o << Line("}", <<>>) >>]
Truncated == [state |-> "truncated", lines |-> <<>>]
Absent    == [state |-> "absent", lines |-> <<>>]

\* step 4: config_path.write_text(...); a failed write leaves the old file or
\* an incomplete one
WriteRegistry(p) ==
    /\ pc[p] = "write_registry"
    /\ \/ /\ models_config' = Render(local_models[p])
          /\ pc' = Set(p, pc, "finally")
          /\ hist' = H(p, "wrote", TRUE)
          /\ UNCHANGED failsLeft
       \/ /\ Inject
          /\ models_config' \in {models_config, Truncated}
          /\ Raise(p, "registry")
    /\ UNCHANGED << Config, runlog, Remote, now, ldirs, lfiles, locks,
                    Walk, Copy, cycles >>

\* except Exception: logging.exception(...)
Except(p) ==
    /\ pc[p] = "except"
    /\ pc' = Set(p, pc, cycle_handler)
    /\ UNCHANGED << Config, runlog, Remote, now, ldirs, lfiles, models_config, locks,
                    Walk, Copy, cycles, failsLeft, hist >>

\* a scheduler that goes on to sleep whatever enable_sync_loop says
FinallyThenSleep(p) ==
    /\ pc[p] = "finally"
    /\ locks' = locks \ {lock_path(p)}
    /\ pc' = Set(p, pc, "sleep")
    /\ hist' = H(p, "endedAt", now)
    /\ UNCHANGED << Config, runlog, Remote, now, ldirs, lfiles, models_config,
                    Walk, Copy, cycles, failsLeft >>

\* finally: log; the with block releases the lock; run_once returns
Finally(p) ==
    /\ pc[p] = "finally"
    /\ locks' = locks \ {lock_path(p)}
    /\ pc' = Set(p, pc, IF enable_sync_loop THEN "sleep" ELSE "returned")
    /\ hist' = H(p, "endedAt", now)
    /\ UNCHANGED << Config, runlog, Remote, now, ldirs, lfiles, models_config,
                    Walk, Copy, cycles, failsLeft >>

\* the interval without its floor
interval_unfloored == sync_interval_minutes * 60

\* run_continuously: interval = max(60, sync_interval_minutes * 60)
interval ==
    IF sync_interval_minutes * 60 > 60 THEN sync_interval_minutes * 60 ELSE 60

\* time.sleep(interval), then the next run_once
Sleep(p) ==
    /\ pc[p] = "sleep"
    /\ cycles[p] < MaxCycles
    /\ cycles' = Set(p, cycles, cycles[p] + 1)
    /\ now' = now + interval
    /\ pc' = Set(p, pc, "acquire")
    /\ UNCHANGED << Config, runlog, Remote, ldirs, lfiles, models_config, locks,
                    Walk, Copy, failsLeft, hist >>

\* another writer changes the tree the daemon reads from HDFS: a file is
\* rewritten (new content, modification time now) or removed
RemoteChange ==
    /\ modsLeft > 0
    /\ modsLeft' = modsLeft - 1
    /\ \E f \in DOMAIN rfiles :
         \/ rfiles' = [rfiles EXCEPT ![f] = RemoteFile(T(now), @.ver + 1)]
         \/ rfiles' = Without(rfiles, {f})
    /\ UNCHANGED << Config, manifest, now, ldirs, lfiles, models_config, locks, pc,
                    Walk, Copy, cycles, failsLeft, hist, runlog >>

Next ==
    \/ RemoteChange
    \/ \E p \in active : Start(p)
    \/ \E p \in active : Acquire(p)
    \/ \E p \in active : ReadManifest(p)
    \/ \E p \in active : BeginModel(p)
    \/ \E p \in active : SyncList(p)
    \/ \E p \in active : NextFile(p)
    \/ \E p \in active : CopyMkdir(p)
    \/ \E p \in active : CopyOpen(p)
    \/ \E p \in active : CopyWrite(p)
    \/ \E p \in active : CopyReplace(p)
    \/ \E p \in active : CopyExcept(p)
    \/ \E p \in active : DeleteStep(p)
    \/ \E p \in active : WriteRegistry(p)
    \/ \E p \in active : Except(p)
    \/ \E p \in active : Finally(p)
    \/ \E p \in active : Sleep(p)

\* ------------------------------------------------------------------ initial states
RemoteTrees ==
    { <<>> }
    \cup { (RF :> RemoteFile(mt, 1)) : mt \in {None, T(1), T(2)} }
    \cup { (RF :> RemoteFile(mt, 1)) @@ (RFtmp :> RemoteFile(T(2), 1)) : mt \in {None, T(2)} }
    \cup { (RF :> RemoteFile(T(2), 1)) @@ (RDG :> RemoteFile(T(1), 1)) }
    \cup { (RF :> RemoteFile(T(2), 1)) @@ (RStrayRx :> RemoteFile(T(2), 1))
             @@ (RStrayE :> RemoteFile(T(2), 1)) }

RemoteManifests ==
    { [kind |-> "ok", models |-> m] : m \in Manifests }
    \cup { [kind |-> k, models |-> <<EntA>>] : k \in {"badyaml", "badutf8"} }

DirA == Append(local_model_root, SegA)
DirC == Append(local_model_root, SegC)
\* the local tree: just created by __init__, or left by earlier cycles (model A
\* synced at time 1, model C since removed from the manifest), or left by
\* cycles that ran when /h/m/d was a file
FreshTree == [dirs |-> {<<>>, local_model_root}, files |-> <<>>, config |-> Absent]
LocalTrees ==
    { FreshTree,
      [dirs |-> {<<>>, local_model_root, DirA},
       files |-> (Append(DirA, SegD) :> LocalFile(Whole(HDir \o <<SegD>>, 1), 1)),
       config |-> Render(<< LocalModelEntryOf(EntA, DirA) >>)],
      [dirs |-> {<<>>, local_model_root, DirA, DirC},
       files |-> (Append(DirA, SegF) :> LocalFile(Whole(RF, 1), 1))
                 @@ (Append(DirC, SegF) :> LocalFile(Whole(RF, 1), 1)),
       config |-> Render(<< LocalModelEntryOf(EntA, DirA),
                            LocalModelEntryOf(EntC, DirC) >>)] }

InitWith(procs, loops, minutes, manifests, trees, locals, fails, mods) ==
    /\ active = procs
    /\ enable_sync_loop \in loops
    /\ sync_interval_minutes \in minutes
    /\ manifest \in manifests
    /\ rfiles \in trees
    /\ modsLeft = mods
    /\ now = 2
    /\ \E t \in locals :
          ldirs = t.dirs /\ lfiles = t.files /\ models_config = t.config
    /\ locks = {}
    /\ pc = [p \in Procs |-> IF p \in procs THEN "start" ELSE "off"]
    /\ hdfs_models = [p \in Procs |-> <<>>]
    /\ mi = [p \in Procs |-> 1]
    /\ local_models = [p \in Procs |-> <<>>]
    /\ listing = [p \in Procs |-> {}]
    /\ cur = [p \in Procs |-> NoCur]
    /\ hloc = [p \in Procs |-> Closed]
    /\ off = [p \in Procs |-> 0]
    /\ cycles = [p \in Procs |-> 0]
    /\ failsLeft = fails
    /\ hist = [p \in Procs |-> NoHist]
    /\ runlog = [p \in Procs |-> <<>>]

\* configured intervals: below the floor, at the floor, above it
Minutes == {-1, 0, 1, 2}

\* one daemon: over a remote tree that nobody changes, or in continuous mode
\* over a tree that other writers change while the daemon runs
InitQuiet ==
    InitWith({1}, BOOLEAN, {1}, RemoteManifests, RemoteTrees, LocalTrees, MaxFails, 0)
InitChanging ==
    InitWith({1}, {TRUE}, Minutes, { [kind |-> "ok", models |-> <<EntA>>] },
             { (RF :> RemoteFile(T(1), 1)) }, {FreshTree}, MaxFails, MaxMods)
Init == InitQuiet \/ InitChanging
Spec == Init /\ [][Next]_vars

\* two daemons configured with the same local model root
Init2 ==
    \/ InitWith({1, 2}, {TRUE}, {1},
                { [kind |-> k, models |-> <<EntA>>] : k \in {"ok", "badutf8"} },
                { (RF :> RemoteFile(T(2), 1)) }, {FreshTree}, 0, 0)
    \/ InitWith({1, 2}, {FALSE}, {1}, { [kind |-> "ok", models |-> <<EntA>>] },
                { (RF :> RemoteFile(T(2), 1)) }, {FreshTree}, 0, MaxMods)
Spec2 == Init2 /\ [][Next]_vars

\* ------------------------------------------------------------------ properties
InCycleBody(p) ==
    pc[p] \in { "read_manifest", "model_loop", "sync_list", "file_loop", "copy_mkdir",
                "copy_open", "copy_write", "copy_replace", "copy_except", "delete",
                "write_registry", "except" }

\* C1: Atomic transfer. For every file handed to _copy_file_atomically in the
\* cycle, during and after the transfer the final local path does not exist
\* or holds one complete version of that remote file, never a partial one.
C1_AtomicTransfer ==
    \A p \in active : \A t \in hist[p].copied :
        \/ t.local_file \notin DOMAIN lfiles
        \/ IsComplete(lfiles[t.local_file].data, t.path)

\* C2: Path containment. Every local directory and file the daemon created
\* lies inside the local model root (the file system root "/" is the only
\* directory that exists outside it before the daemon runs).
C2_PathContainment ==
    /\ \A d \in ldirs : d = <<>> \/ InsideRoot(d)
    /\ \A f \in DOMAIN lfiles : InsideRoot(f)

\* C3: Cross-process mutual exclusion. Two daemons on the same local model
\* root are never both inside the cycle body.
C3_MutualExclusion ==
    \A p, q \in active : p # q => ~(InCycleBody(p) /\ InCycleBody(q))

\* C4: Reconciler idempotence. When _sync_directory has run twice in
\* succession on the same directories, neither run with a failed transfer
\* and nothing changed in between, the second run transfers nothing.
C4_Idempotence ==
    \A p \in active :
        Len(runlog[p]) = 2 =>
            LET prev == runlog[p][1]
                last == runlog[p][2]
            IN  ( /\ prev.hdfs_dir = last.hdfs_dir
                  /\ prev.local_dir = last.local_dir
                  /\ prev.failed = 0 /\ last.failed = 0
                  /\ prev.after = last.before )
                => last.transfers = 0

DeclaredPath(p, i) == Resolve(Join(local_model_root, hdfs_models[p][i].name))
Under(files, d) == [q \in { x \in DOMAIN files : IsPrefix(d, x) } |-> files[q]]

\* C6: Deletion propagation. When the deletion step of a cycle has ended,
\* every top-level directory carries a declared model name, and the
\* directory of every declared model that was there before the cycle and
\* needed no transfer is as it was.
C6_DeletionPropagation ==
    \A p \in active :
        pc[p] = "write_registry" =>
            /\ \A d \in TopLevelDirs : Raw(FALSE, <<Name(d)>>) \in expected(p)
            /\ \A i \in 1 .. Len(hdfs_models[p]) :
                 LET lp == DeclaredPath(p, i)
                 IN  ( /\ lp \in hist[p].before.dirs
                       /\ InsideRoot(lp) /\ lp # local_model_root
                       /\ hist[p].transfers = 0 )
                     => ( /\ lp \in ldirs
                          /\ Under(lfiles, lp) = Under(hist[p].before.files, lp) )

\* C7: A declared model is never deleted. The deletion step removes no
\* directory that is the local directory of a model of the manifest, or an
\* ancestor of it.
C7_DeclaredNeverDeleted ==
    \A p \in active : \A d \in hist[p].deleted :
        \A i \in 1 .. Len(hdfs_models[p]) : ~IsPrefix(d, DeclaredPath(p, i))

OutsideCycle(p) == pc[p] \in {"start", "acquire", "sleep", "returned"}

\* C8: Cycle-level error containment. No exception of steps 1-4 leaves
\* run_once: a cycle that raised ends like any other, with the lock released
\* and the process back in run_continuously (asleep in continuous mode,
\* returned otherwise); and the loop then enters run_once again, which
\* starts at step 1 with nothing kept from the failed cycle.
C8_ErrorContainment ==
    /\ [](\A p \in active :
            /\ pc[p] # "crashed"
            /\ OutsideCycle(p) => lock_path(p) \notin locks
            /\ (hist[p].raised /\ ~InCycleBody(p) /\ pc[p] # "finally")
                 => IF enable_sync_loop THEN pc[p] \in {"sleep", "acquire"}
                                        ELSE pc[p] = "returned"
            /\ (pc[p] = "sleep" /\ cycles[p] < MaxCycles) => ENABLED Sleep(p))
    /\ [][\A p \in active :
            /\ (pc[p] = "sleep" /\ pc'[p] # "sleep") => pc'[p] = "acquire"
            /\ (pc[p] = "acquire" /\ pc'[p] # "acquire")
                 => /\ pc'[p] = "read_manifest"
                    /\ hist'[p].prevRaised = hist[p].raised
                    /\ ~hist'[p].raised /\ hist'[p].synced = {} /\ ~hist'[p].wrote]_vars

\* the cycle after a cycle that raised has run through step 4
C8_Witness ==
    \E p \in active :
        hist[p].prevRaised /\ hist[p].wrote /\ pc[p] = "sleep" /\ lock_path(p) \notin locks

\* C9: File-level failure isolation. A failure inside _copy_file_atomically
\* is not raised to the caller, and after a failed transfer the staging file
\* is gone.
C9_FileFailureIsolation ==
    \A p \in active :
        /\ hist[p].raisedAt \notin {"copy_mkdir", "copy_unlink"}
        /\ (pc[p] = "file_loop" /\ hist[p].run.failed > 0 /\ cur[p] # NoCur)
             => TmpOf(p) \notin DOMAIN lfiles

C11_StepOrdering ==
    /\ [](\A p \in active :
            LET a == hist[p].attempts
            IN  /\ \A i, j \in 1 .. Len(a) : i < j => a[i] < a[j]
                /\ \A i \in 1 .. Len(a) :
                     \/ a[i] \in hist[p].synced
                     \/ i = Len(a) /\ a[i] = mi[p]
                /\ (hist[p].deleted # {} \/ hist[p].wrote \/ pc[p] = "write_registry")
                     => /\ mi[p] > Len(hdfs_models[p])
                        /\ \A i \in 1 .. Len(a) : a[i] \in hist[p].synced)
    /\ [][ /\ ~(ldirs \subseteq ldirs')
               => \E p \in active : pc[p] = "delete" /\ mi[p] > Len(hdfs_models[p])
           /\ \A p \in active :
                (hist[p].wrote /\ hist'[p].wrote)
                  => UNCHANGED << ldirs, lfiles, models_config >> ]_vars

\* a cycle that reconciled two models, then deleted a directory, then wrote
\* the registry
C11_Witness ==
    \E p \in active :
        /\ Len(hist[p].attempts) = 2 /\ hist[p].synced = {1, 2}
        /\ hist[p].deleted # {} /\ hist[p].wrote

\* the positions of the block openings of a document, and the i-th of them
BlockStarts(doc) == { j \in 1 .. Len(doc) : doc[j].k = "config {" }
NthStart(doc, i) ==
    CHOOSE j \in BlockStarts(doc) : Cardinality({ x \in BlockStarts(doc) : x < j }) = i - 1
\* the manifest index of the i-th model that was reconciled in the cycle
NthSynced(p, i) ==
    CHOOSE k \in hist[p].synced : Cardinality({ x \in hist[p].synced : x < k }) = i - 1

\* C12: Registry rendering. The registry a cycle wrote holds nothing but
\* one block per recorded LocalModelEntry, in manifest order; the recorded
\* entries are the manifest models that passed the containment check; and
\* each block holds name, base path and platform in this order, then the
\* labels block exactly when the labels are not empty, then the policy
\* block exactly when the policy is not empty.
C12_RegistryRendering ==
    \A p \in active :
        hist[p].wrote =>
            LET doc == models_config.lines
                es  == local_models[p]
                n   == Len(es)
            IN  /\ models_config.state = "written"
                /\ hist[p].synced = { i \in 1 .. Len(hdfs_models[p]) :
                                        containment_ok(DeclaredPath(p, i)) }
                /\ n = Cardinality(hist[p].synced)
                /\ Cardinality(BlockStarts(doc)) = n
                /\ doc[1].k = "model_config_list {" /\ doc[Len(doc)].k = "}"
                /\ IF n = 0 THEN Len(doc) = 2 ELSE NthStart(doc, 1) = 2
                /\ \A i \in 1 .. n :
                     LET j == NthStart(doc, i)
                         m == hdfs_models[p][NthSynced(p, i)]
                         l == IF m.version_labels # <<>> THEN 1 ELSE 0
                         q == IF m.version_policy # <<>> THEN 1 ELSE 0
                         end == j + 4 + l + q
                     IN  /\ end <= Len(doc)
                         /\ doc[j + 1] = Line("name", m.name)
                         /\ doc[j + 2].k = "base_path"
                         /\ doc[j + 2].v = DeclaredPath(p, NthSynced(p, i))
                         /\ doc[j + 3] = Line("model_platform", m.model_platform)
                         /\ l = 1 => doc[j + 4] = Line("version_labels {", m.version_labels)
                         /\ q = 1 => doc[j + 4 + l] = Line("version_policy {", m.version_policy)
                         /\ doc[end].k = "}"
                         /\ IF i = n THEN end + 1 = Len(doc)
                                     ELSE NthStart(doc, i + 1) = end + 1

\* a registry with two blocks: one with labels and no policy, one with a policy
\* and no labels, written over a registry that listed another model
C12_Witness ==
    \E p \in active :
        /\ hist[p].wrote /\ Len(local_models[p]) = 2
        /\ local_models[p][1].version_labels # <<>> /\ local_models[p][1].version_policy = <<>>
        /\ local_models[p][2].version_labels = <<>> /\ local_models[p][2].version_policy # <<>>
        /\ hist[p].before.config.state = "written"
        /\ hist[p].before.config # models_config

\* the time between the end of the previous cycle of p and the start of the
\* cycle p is in (or has just ended)
WaitBefore(p) == hist[p].startedAt - hist[p].prevEnd

\* C13: Interval floor. In continuous mode every cycle but the first starts
\* max(60, 60 * sync_interval_minutes) seconds after the end of the cycle
\* before it: 60 seconds for every setting up to one minute, zero and
\* negative ones included, and never less than 60 seconds.
C13_IntervalFloor ==
    \A p \in active :
        (enable_sync_loop /\ cycles[p] >= 2 /\ pc[p] # "acquire") =>
            /\ WaitBefore(p) >= 60
            /\ sync_interval_minutes <= 1 => WaitBefore(p) = 60
            /\ sync_interval_minutes >= 1 => WaitBefore(p) = 60 * sync_interval_minutes

\* a second cycle that started 60 seconds after the first, with a negative
\* interval configured
C13_Witness ==
    \E p \in active :
        /\ enable_sync_loop /\ cycles[p] = 2 /\ pc[p] = "read_manifest"
        /\ sync_interval_minutes < 0 /\ WaitBefore(p) = 60

\* C14: Scheduler modes. With the loop disabled a process runs one cycle and
\* returns when that cycle has ended. With the loop enabled it never
\* returns, a cycle starts only from the first call or from a completed
\* sleep, the sleep starts only when the cycle before it has ended, and a
\* sleeping process can always go on to its next cycle.
C14_SchedulerModes ==
    /\ [](\A p \in active :
            /\ ~enable_sync_loop => (cycles[p] <= 1 /\ pc[p] # "sleep")
            /\ pc[p] = "returned" => (~enable_sync_loop /\ cycles[p] = 1)
            /\ (pc[p] = "sleep" /\ cycles[p] < MaxCycles) => ENABLED Sleep(p))
    /\ [][\A p \in active :
            /\ cycles'[p] # cycles[p]
                 => /\ cycles'[p] = cycles[p] + 1
                    /\ pc[p] \in {"start", "sleep"} /\ pc'[p] = "acquire"
            /\ (pc'[p] = "acquire" /\ pc[p] # "acquire") => cycles'[p] = cycles[p] + 1
            /\ (pc'[p] \in {"sleep", "returned"} /\ pc[p] # pc'[p]) => pc[p] = "finally"
            /\ pc[p] = "returned" => pc'[p] = "returned" ]_vars

\* a process in continuous mode asleep after its second complete cycle
C14_Witness ==
    \E p \in active :
        enable_sync_loop /\ cycles[p] = 2 /\ pc[p] = "sleep" /\ hist[p].wrote
        /\ ~hist[p].prevRaised

\* C15: A missing remote directory has no side effects. A run of
\* _sync_directory on a remote path that is not a directory returns with
\* the local directories and files as they were when it was called.
C15_MissingRemoteNoEffect ==
    \A p \in active :
        runlog[p] # <<>> =>
            LET r == runlog[p][Len(runlog[p])]
            IN  ~IsRemoteDir(r.hdfs_dir)
                  => (r.dirsAfter = r.dirsBefore /\ r.after = r.before)

\* the local file that mirrors the remote file f of the i-th manifest model
MirrorOf(p, i, f) ==
    Resolve(Join(DeclaredPath(p, i), RelPath(f, hdfs_models[p][i].base_path)))
\* the remote files of the i-th manifest model
RemoteFilesOf(p, i) ==
    { f \in DOMAIN rfiles : IsPrefix(hdfs_models[p][i].base_path, f) }

\* C16: Eventual consistency. A cycle in continuous mode that ran to its end
\* without any failure, during which the remote tree did not change, and
\* that found nothing to transfer and nothing to delete (so that every later
\* cycle over the same remote tree does what this one did) leaves, for every
\* declared model, a local copy of every remote file that has a modification
\* time, holding the current remote content.
C16_EventualConsistency ==
    \A p \in active :
        ( /\ pc[p] = "sleep" /\ hist[p].parsed = "ok"
          /\ ~hist[p].raised /\ hist[p].copyfailed = 0 /\ hist[p].transfers = 0
          /\ hist[p].deleted = {} /\ hist[p].remote = rfiles )
        => \A i \in 1 .. Len(hdfs_models[p]) : \A f \in RemoteFilesOf(p, i) :
             ( containment_ok(DeclaredPath(p, i)) /\ rfiles[f].mtime # None )
             => /\ MirrorOf(p, i, f) \in DOMAIN lfiles
                /\ lfiles[MirrorOf(p, i, f)].data = Whole(f, rfiles[f].ver)

\* the paths of the files under directory d, relative to d
RelFiles(files, d) == { SubSeq(f, Len(d) + 1, Len(f)) : f \in { x \in files : IsPrefix(d, x) } }

\* C17: The local layout mirrors the remote one. When a cycle has ended
\* with no failure at all and the remote tree is as it was when the cycle
\* started, then for every declared model the relative paths of the files
\* under its local directory are those of the files under its remote base
\* path.
C17_LocalMirrorsRemote ==
    \A p \in active :
        ( /\ pc[p] \in {"sleep", "returned"} /\ hist[p].parsed = "ok" /\ hist[p].wrote
          /\ ~hist[p].raised /\ hist[p].copyfailed = 0
          /\ hist[p].deleted = {} /\ hist[p].remote = rfiles )
        => \A i \in 1 .. Len(hdfs_models[p]) :
             ( i \in hist[p].synced /\ InsideRoot(DeclaredPath(p, i)) )
             => RelFiles(DOMAIN lfiles, DeclaredPath(p, i))
                  = RelFiles(DOMAIN rfiles, hdfs_models[p][i].base_path)

\* C18: The registry reflects the post-deletion state. When step 4 has just
\* written the registry, every base path in it is a directory that exists
\* and lies inside the local model root.
C18_RegistryPostDeletion ==
    \A p \in active :
        (hist[p].wrote /\ pc[p] = "finally") =>
            \A j \in 1 .. Len(models_config.lines) :
                models_config.lines[j].k = "base_path"
                  => /\ models_config.lines[j].v \in ldirs
                     /\ InsideRoot(models_config.lines[j].v)

InCopy(p) ==
    pc[p] \in {"copy_mkdir", "copy_open", "copy_write", "copy_replace", "copy_except"}

\* C19: The staging path does not interfere with other mirrored files.
\* While a file is transferred, its staging path is not the final local
\* path of any other file of the same remote tree.
C19_StagingNonInterference ==
    \A p \in active :
        InCopy(p) =>
            \A fi \in Listed(Entry(p).base_path) :
                fi.path # cur[p].path => LocalFileOf(p, fi) # TmpOf(p)

\* the cycle of p is past step 1 and no manifest was handed to the parser
ReadFailed(p) ==
    hist[p].parsed = "none" /\ pc[p] \notin {"off", "start", "acquire", "read_manifest"}

\* C20: A manifest read failure leaves the local state unchanged. When the
\* manifest could not be opened, read or decoded, the cycle goes straight to
\* its handler: no model is reconciled, nothing is deleted, the registry is
\* not written, and the local directories, files and models.config are
\* those found at the start of the cycle.
C20_ReadFailureFrame ==
    \A p \in active :
        ReadFailed(p) =>
            /\ pc[p] \in {"except", "finally", "sleep", "returned"}
            /\ hist[p].raised /\ hist[p].raisedAt = "manifest"
            /\ hist[p].attempts = <<>> /\ hist[p].synced = {} /\ hist[p].transfers = 0
            /\ hist[p].deleted = {} /\ ~hist[p].wrote
            /\ ldirs = hist[p].before.dirs
            /\ lfiles = hist[p].before.files
            /\ models_config = hist[p].before.config

\* a cycle that could not read the manifest has ended, and the model
\* directories and the registry of earlier cycles are there
C20_Witness ==
    \E p \in active :
        /\ ReadFailed(p) /\ pc[p] \in {"sleep", "returned"}
        /\ TopLevelDirs # {} /\ DOMAIN lfiles # {} /\ models_config.state = "written"

====
